---- MODULE Spec2Model ----
(***************************************************************************)
(* Model of fluent-bundle/src/resource.rs: FluentResource, a container     *)
(* that owns a source String (the cart) and the AST parsed from it (the    *)
(* yokeable), whose string slices point into the cart's heap buffer.       *)
(***************************************************************************)
EXTENDS Integers, Sequences, FiniteSets, TLC

\* ------------------------------------------------------------------ bounds
\* Longest source text passed to try_new.
MaxLen == 3

\* ------------------------------------------------------------- primitives
\* Characters of a source text: "k" starts an entry, "v" continues it,
\* "x" belongs to no entry.
Chars == {"k", "v", "x"}
Free == "free"

RECURSIVE TextsUpTo(_)
TextsUpTo(n) ==
    IF n = 0 THEN {<<>>}
    ELSE LET S == TextsUpTo(n - 1)
         IN  S \cup {Append(t, c) : t \in {u \in S : Len(u) = n - 1}, c \in Chars}

Texts == TextsUpTo(MaxLen)

\* Heap addresses; one more than the longest text so a buffer can sit at
\* more than one base address.
Addr == 0 .. MaxLen
\* Places a FluentResource value can live in (it is moved between them).
Slots == {"a", "b"}
\* Threads holding a shared reference to the resource.
Readers == {"r1", "r2"}
\* usize arguments handed to get_entry: every valid index and, for every
\* resource, at least one index past the end.
Idx == 0 .. MaxLen

\* Option<T>: None is the empty sequence, Some(x) the one-element sequence.
None == <<>>
Some(x) == <<x>>

\* The text a &str (pointer and length) denotes in memory m.
Str(m, s) == [i \in 1 .. s.len |-> m[s.ptr + i - 1]]

\* Memory m after a String holding text t is allocated at address base.
Alloc(m, base, t) ==
    [a \in Addr |-> IF a >= base /\ a < base + Len(t) THEN t[a - base + 1] ELSE m[a]]

\* Memory m after the buffer of String c is released.
Dealloc(m, c) ==
    [a \in Addr |-> IF a >= c.ptr /\ a < c.ptr + c.len THEN Free ELSE m[a]]

\* ------------------------------------------------------------------ parser
\* First position >= i of text t that does not hold character class cs.
RECURSIVE RunEnd(_, _, _)
RunEnd(t, i, cs) ==
    IF i > Len(t) \/ t[i] \notin cs THEN i ELSE RunEnd(t, i + 1, cs)

\* The parser's scan of text t from position i: entries as offsets into t,
\* diagnostics as ranges of t, both in source order.
RECURSIVE Scan(_, _, _, _)
Scan(t, i, body, errs) ==
    IF i > Len(t) THEN [body |-> body, errors |-> errs]
    ELSE IF t[i] = "k"
         THEN LET j == RunEnd(t, i + 1, {"v"})
              IN  Scan(t, j, Append(body, [id |-> [off |-> i - 1, len |-> 1],
                                           value |-> [off |-> i, len |-> j - i - 1]]), errs)
         ELSE LET j == RunEnd(t, i + 1, {"v", "x"})
              IN  Scan(t, j, body, Append(errs, [kind |-> "ExpectedEntry",
                                                 pos |-> <<i - 1, j - 1>>]))

\* parse_runtime(source: &str): Ok(ast) without diagnostics, Err((ast, errors))
\* with them; the ast's slices are sub-slices of source.
parse_runtime(m, s) ==
    LET r == Scan(Str(m, s), 1, <<>>, <<>>)
        slice(x) == [ptr |-> s.ptr + x.off, len |-> x.len]
        ast == [body |-> [n \in 1 .. Len(r.body) |->
                            [id |-> slice(r.body[n].id), value |-> slice(r.body[n].value)]]]
    IN  IF r.errors = <<>>
        THEN [tag |-> "Ok", ast |-> ast]
        ELSE [tag |-> "Err", ast |-> ast, err |-> r.errors]

\* ---------------------------------------------------------- FluentResource
\* <String as Deref>::deref: the &str over the String's buffer.
deref(cart) == [ptr |-> cart.ptr, len |-> cart.len]

\* Yoke::attach_to_cart(cart, f), given the value f returned for deref(cart):
\* the result holds that value and the cart.
attach_to_cart(cart, yokeable) == [yokeable |-> yokeable, cart |-> cart]

backing_cart(y) == y.cart

get(y) == y.yokeable

\* The closure try_new hands to attach_to_cart, run on &str s in memory m:
\* the ast it returns and what it leaves in the captured errors.
closure(m, s, errors) ==
    LET parsed == parse_runtime(m, s)
    IN  IF parsed.tag = "Ok"
        THEN [ast |-> parsed.ast, errors |-> errors]
        ELSE [ast |-> parsed.ast, errors |-> Some(parsed.err)]

\* try_new as it would be if the Err arm of the closure dropped the tree.
try_new_discard(m, source) ==
    LET c == closure(m, deref(source), None)
        res == attach_to_cart(source, IF c.errors = None THEN c.ast ELSE [body |-> <<>>])
    IN  IF c.errors = None
        THEN [tag |-> "Ok", val |-> res, err |-> None]
        ELSE [tag |-> "Err", val |-> res, err |-> c.errors]

\* try_new as it would be if errors started as Some(empty list), not None.
try_new_some_empty(m, source) ==
    LET errors == Some(<<>>)
        c == closure(m, deref(source), errors)
        res == attach_to_cart(source, c.ast)
    IN  IF c.errors = None
        THEN [tag |-> "Ok", val |-> res, err |-> None]
        ELSE [tag |-> "Err", val |-> res, err |-> c.errors]

\* try_new as it would be if it kept only the parser's first error.
try_new_first_error(m, source) ==
    LET errors == None
        c == closure(m, deref(source), errors)
        res == attach_to_cart(source, c.ast)
    IN  IF c.errors = None
        THEN [tag |-> "Ok", val |-> res, err |-> None]
        ELSE [tag |-> "Err", val |-> res, err |-> Some(<<c.errors[1][1]>>)]

\* FluentResource::try_new(source: String), run against memory m.
try_new(m, source) ==
    LET errors == None
        c == closure(m, deref(source), errors)
        res == attach_to_cart(source, c.ast)
    IN  IF c.errors = None
        THEN [tag |-> "Ok", val |-> res, err |-> None]
        ELSE [tag |-> "Err", val |-> res, err |-> c.errors]

\* source() as it would be if it cut the last character off.
source_trimmed(self) ==
    LET s == deref(backing_cart(self))
    IN  [ptr |-> s.ptr, len |-> IF s.len > 0 THEN s.len - 1 ELSE 0]

\* FluentResource::source(&self): the &str over the cart.
source(self) == deref(backing_cart(self))

\* FluentResource::entries(&self): a slice iterator positioned at the start.
entries(self) == [pos |-> 0]

\* next() as it would be if the iterator walked the entries from the back.
IterNext_rev(self, it) ==
    LET body == get(self).body
    IN  IF it.pos < Len(body)
        THEN [item |-> Some(body[Len(body) - it.pos]), it |-> [pos |-> it.pos + 1]]
        ELSE [item |-> None, it |-> it]

\* Iterator::next on the iterator entries() returned.
IterNext(self, it) ==
    LET body == get(self).body
    IN  IF it.pos < Len(body)
        THEN [item |-> Some(body[it.pos + 1]), it |-> [pos |-> it.pos + 1]]
        ELSE [item |-> None, it |-> it]

\* Iterator::count: the number of items next() yields before None.
RECURSIVE count(_, _)
count(self, it) ==
    LET n == IterNext(self, it)
    IN  IF n.item = None THEN 0 ELSE 1 + count(self, n.it)

\* get_entry as it would be if idx were taken as counting from one.
get_entry_one_based(self, idx) ==
    LET body == get(self).body
    IN  IF idx >= 1 /\ idx <= Len(body) THEN Some(body[idx]) ELSE None

\* get_entry as it would be if an index past the end gave the last entry.
get_entry_clamped(self, idx) ==
    LET body == get(self).body
    IN  IF Len(body) = 0 THEN None
        ELSE IF idx < Len(body) THEN Some(body[idx + 1]) ELSE Some(body[Len(body)])

\* FluentResource::get_entry(&self, idx: usize).
get_entry(self, idx) ==
    LET body == get(self).body
    IN  IF idx < Len(body) THEN Some(body[idx + 1]) ELSE None

\* ------------------------------------------------------------------- state
VARIABLES
    phase,      \* "new" before try_new, "live" while the resource exists, "dropped" after
    input,      \* the text handed to try_new
    mem,        \* heap memory: a character or Free at every address
    res,        \* Option<FluentResource>: the resource value while it exists
    slot,       \* where the resource value currently lives
    tag,        \* which variant try_new returned: "Ok" or "Err" ("none" before)
    errs,       \* Option<Vec<ParserError>>: the list the Err variant carries
    last,       \* per reader: Option of its last source() or get_entry() call,
                \* [op, idx, ret], ret being the text shown or the Option returned
    trav        \* per reader: its traversal, [it: Option iterator, yielded, ended]

vars == <<phase, input, mem, res, slot, tag, errs, last, trav>>

NoTrav == [it |-> None, yielded |-> <<>>, ended |-> FALSE]

\* A reader holds no reference borrowed from the resource.
Idle(r) == last[r] = None /\ trav[r] = NoTrav

Init ==
    /\ phase = "new"
    /\ input = <<>>
    /\ mem = [a \in Addr |-> Free]
    /\ res = None
    /\ slot = "a"
    /\ tag = "none"
    /\ errs = None
    /\ last = [r \in Readers |-> None]
    /\ trav = [r \in Readers |-> NoTrav]

\* The caller builds a String holding text t and calls try_new on it.
TryNew ==
    /\ phase = "new"
    /\ \E t \in Texts, base \in Addr :
          /\ base + Len(t) <= MaxLen + 1
          /\ LET m1 == Alloc(mem, base, t)
                 out == try_new(m1, [ptr |-> base, len |-> Len(t)])
             IN  /\ mem' = m1
                 /\ input' = t
                 /\ res' = Some(out.val)
                 /\ tag' = out.tag
                 /\ errs' = out.err
    /\ phase' = "live"
    /\ UNCHANGED <<slot, last, trav>>

\* Reader r calls source().
Source(r) ==
    /\ phase = "live"
    /\ last' = [last EXCEPT ![r] =
                  Some([op |-> "source", idx |-> 0, ret |-> Str(mem, source(res[1]))])]
    /\ UNCHANGED <<phase, input, mem, res, slot, tag, errs, trav>>

\* Reader r calls get_entry(idx).
GetEntry(r) ==
    /\ phase = "live"
    /\ \E idx \in Idx :
          last' = [last EXCEPT ![r] =
                     Some([op |-> "get_entry", idx |-> idx, ret |-> get_entry(res[1], idx)])]
    /\ UNCHANGED <<phase, input, mem, res, slot, tag, errs, trav>>

\* entries() as it would be if the resource kept one cursor for all callers:
\* the iterator handed out stands where the furthest traversal stands.
Entries_shared(r) ==
    /\ phase = "live"
    /\ LET ps == {0} \cup {trav[q].it[1].pos : q \in {x \in Readers : trav[x].it # None}}
           top == CHOOSE p \in ps : \A q \in ps : q <= p
       IN  trav' = [trav EXCEPT ![r] =
                      [it |-> Some([pos |-> top]), yielded |-> <<>>, ended |-> FALSE]]
    /\ UNCHANGED <<phase, input, mem, res, slot, tag, errs, last>>

\* Reader r calls entries() and keeps the iterator.
Entries(r) ==
    /\ phase = "live"
    /\ trav' = [trav EXCEPT ![r] =
                  [it |-> Some(entries(res[1])), yielded |-> <<>>, ended |-> FALSE]]
    /\ UNCHANGED <<phase, input, mem, res, slot, tag, errs, last>>

\* next() as it would be if the traversal took each entry out of the resource.
Next_drain(r) ==
    /\ phase = "live"
    /\ trav[r].it # None
    /\ LET body == get(res[1]).body
       IN  IF body = <<>>
           THEN /\ trav' = [trav EXCEPT ![r] = [@ EXCEPT !.ended = TRUE]]
                /\ res' = res
           ELSE /\ trav' = [trav EXCEPT ![r] =
                              [@ EXCEPT !.yielded = Append(@, Head(body)), !.ended = FALSE]]
                /\ res' = Some([res[1] EXCEPT !.yokeable = [body |-> Tail(body)]])
    /\ UNCHANGED <<phase, input, mem, slot, tag, errs, last>>

\* Reader r calls next() on the iterator it holds.
Next_(r) ==
    /\ phase = "live"
    /\ trav[r].it # None
    /\ LET n == IterNext(res[1], trav[r].it[1])
       IN  trav' = [trav EXCEPT ![r] =
                      IF n.item = None
                      THEN [it |-> Some(n.it), yielded |-> @.yielded, ended |-> TRUE]
                      ELSE [it |-> Some(n.it), yielded |-> Append(@.yielded, n.item[1]),
                            ended |-> FALSE]]
    /\ UNCHANGED <<phase, input, mem, res, slot, tag, errs, last>>

\* Reader r lets go of every reference it borrowed from the resource.
Release(r) ==
    /\ phase = "live"
    /\ ~Idle(r)
    /\ last' = [last EXCEPT ![r] = None]
    /\ trav' = [trav EXCEPT ![r] = NoTrav]
    /\ UNCHANGED <<phase, input, mem, res, slot, tag, errs>>

\* A move as it would be if the String's buffer were copied to another address
\* and the old one released, with the AST's slices left as they were.
Move_relocate ==
    /\ phase = "live"
    /\ \A r \in Readers : Idle(r)
    /\ \E s \in Slots \ {slot} : slot' = s
    /\ LET c == backing_cart(res[1])
           bases == {b \in Addr : b + c.len <= MaxLen + 1 /\ (b >= c.ptr + c.len \/ b + c.len <= c.ptr)}
       IN  IF bases = {} \/ c.len = 0
           THEN UNCHANGED <<mem, res>>
           ELSE \E b \in bases :
                   /\ mem' = Alloc(Dealloc(mem, c), b, Str(mem, [ptr |-> c.ptr, len |-> c.len]))
                   /\ res' = Some([res[1] EXCEPT !.cart = [ptr |-> b, len |-> c.len]])
    /\ UNCHANGED <<phase, input, tag, errs, last, trav>>

\* The owner moves the FluentResource value: the Yoke's fields are copied to
\* the new place as they are; the String's heap buffer stays where it is.
Move ==
    /\ phase = "live"
    /\ \A r \in Readers : Idle(r)
    /\ \E s \in Slots \ {slot} : slot' = s
    /\ UNCHANGED <<phase, input, mem, res, tag, errs, last, trav>>

\* The owner drops the FluentResource value: the AST and the String go
\* together, and the String's buffer is released.
Drop ==
    /\ phase = "live"
    /\ \A r \in Readers : Idle(r)
    /\ mem' = Dealloc(mem, backing_cart(res[1]))
    /\ res' = None
    /\ phase' = "dropped"
    /\ UNCHANGED <<input, slot, tag, errs, last, trav>>

Next ==
    \/ TryNew
    \/ \E r \in Readers : Source(r)
    \/ \E r \in Readers : GetEntry(r)
    \/ \E r \in Readers : Entries(r)
    \/ \E r \in Readers : Next_(r)
    \/ \E r \in Readers : Release(r)
    \/ Move
    \/ Drop

Spec == Init /\ [][Next]_vars

\* ------------------------------------------------------- reference results
\* What the parser returns for text t held in a buffer at address base,
\* computed from the text alone.
ParserOf(t, base) ==
    parse_runtime(Alloc([a \in Addr |-> Free], base, t), [ptr |-> base, len |-> Len(t)])

\* The parser's result for the text try_new was given, at the cart's address.
Parsed == ParserOf(input, backing_cart(res[1]).ptr)

\* The i-th item (from 0) an iterator yields.
RECURSIVE IterNth(_, _, _)
IterNth(self, it, i) ==
    LET n == IterNext(self, it)
    IN  IF i = 0 \/ n.item = None THEN n.item ELSE IterNth(self, n.it, i - 1)

\* What get_entry(idx) returns on a resource holding exactly the entries E.
Lookup(E, idx) == IF idx < Len(E) THEN Some(E[idx + 1]) ELSE None

\* Every slice of entry e lies inside the buffer of String c.
Inside(e, c) ==
    /\ e.id.ptr >= c.ptr /\ e.id.ptr + e.id.len <= c.ptr + c.len
    /\ e.value.ptr >= c.ptr /\ e.value.ptr + e.value.len <= c.ptr + c.len

\* Reader r's last call was source() / get_entry().
SawSource(r) == last[r] # None /\ last[r][1].op = "source"
SawEntry(r) == last[r] # None /\ last[r][1].op = "get_entry"

\* ------------------------------------------------------------------ claims

\* C1: the resource try_new returns, in the Ok and in the Err outcome alike,
\* has source() equal to the text given to try_new, character for character.
C1_SourceRoundTrip ==
    /\ phase = "live" => Str(mem, source(res[1])) = input
    /\ \A r \in Readers : SawSource(r) => last[r][1].ret = input

C1_Witness ==
    /\ tag = "Err"
    /\ Len(input) = MaxLen
    /\ input[MaxLen] = "x"
    /\ SawSource("r1")
    /\ last["r1"][1].ret = input

\* C2: try_new always returns a resource, and its entries are exactly the
\* tree the parser returned for the same text, also in the Err outcome.
C2_TreeKept ==
    phase = "live" =>
        /\ tag \in {"Ok", "Err"}
        /\ res # None
        /\ get(res[1]) = Parsed.ast

C2_Witness ==
    /\ phase = "live"
    /\ tag = "Err"
    /\ Len(get(res[1]).body) >= 1

\* C3: try_new returns Ok exactly when the parser produced no diagnostics,
\* and the list an Err carries is never empty.
C3_OkIffNoDiagnostics ==
    phase # "new" =>
        /\ tag = "Ok" <=> Scan(input, 1, <<>>, <<>>).errors = <<>>
        /\ tag = "Ok" => errs = None
        /\ tag = "Err" => errs # None /\ errs[1] # <<>>

C3_Witness ==
    /\ tag = "Err"
    /\ errs # None
    /\ Len(input) >= 2
    /\ input[1] = "k"

\* C4: the list the Err outcome carries is the list the parser produced
\* (same records, same order), and no step after construction changes it.
C4_DiagnosticsKept ==
    /\ [](phase # "new" /\ tag = "Err" =>
              errs = Some(Scan(input, 1, <<>>, <<>>).errors))
    /\ [][phase # "new" => errs' = errs /\ tag' = tag]_vars

C4_Witness ==
    /\ tag = "Err"
    /\ errs # None
    /\ Len(errs[1]) = 2
    /\ SawEntry("r1")

\* C5: entries().count() is the number of entries held, and get_entry(i) for
\* i below that number is the present i-th item entries() yields.
C5_EntryCountConsistency ==
    phase = "live" =>
        LET self == res[1]
            n == Len(Parsed.ast.body)
        IN  /\ count(self, entries(self)) = n
            /\ \A i \in 0 .. (n - 1) :
                  /\ get_entry(self, i) # None
                  /\ get_entry(self, i) = IterNth(self, entries(self), i)
            /\ \A r \in Readers : trav[r].ended => Len(trav[r].yielded) = n
            /\ \A r1, r2 \in Readers :
                  (/\ SawEntry(r1)
                   /\ last[r1][1].idx < Len(trav[r2].yielded))
                  => last[r1][1].ret = Some(trav[r2].yielded[last[r1][1].idx + 1])

C5_Witness ==
    /\ phase = "live"
    /\ trav["r2"].ended
    /\ Len(trav["r2"].yielded) >= 2
    /\ SawEntry("r1")
    /\ last["r1"][1].idx = 1

\* C6: get_entry(i) for i at or past the number of entries returns None, on
\* an empty resource too, and changes nothing in the resource.
C6_BoundsSafety ==
    /\ [](phase = "live" =>
              LET n == Len(Parsed.ast.body)
              IN  /\ \A i \in Idx : i >= n => get_entry(res[1], i) = None
                  /\ \A r \in Readers :
                        (SawEntry(r) /\ last[r][1].idx >= n) => last[r][1].ret = None)
    /\ [][(\E r \in Readers : last'[r] # last[r] /\ last'[r] # None /\ last'[r][1].op = "get_entry")
             => res' = res /\ mem' = mem]_vars

C6_Witness ==
    /\ phase = "live"
    /\ Len(get(res[1]).body) >= 1
    /\ SawEntry("r1")
    /\ last["r1"][1].idx = Len(get(res[1]).body)
    /\ SawEntry("r2")
    /\ last["r2"][1].idx > last["r1"][1].idx

\* C7: no source(), entries(), next() or get_entry() call changes the stored
\* text or the stored entries, and a later source() or traversal shows what
\* an earlier one showed.
C7_ImmutableAfterConstruction ==
    [][(phase = "live" /\ phase' = "live") =>
          /\ Str(mem', source(res'[1])) = Str(mem, source(res[1]))
          /\ get(res'[1]).body = get(res[1]).body
          /\ \A r1, r2 \in Readers :
                /\ (SawSource(r1) /\ last'[r2] # None /\ last'[r2][1].op = "source")
                      => last'[r2][1].ret = last[r1][1].ret
                /\ \A i \in 1 .. Len(trav[r1].yielded) :
                      i <= Len(trav'[r2].yielded) => trav'[r2].yielded[i] = trav[r1].yielded[i]
      ]_vars

C7_Witness ==
    /\ phase = "live"
    /\ SawSource("r1")
    /\ SawSource("r2")
    /\ trav["r1"].ended
    /\ Len(trav["r1"].yielded) >= 2
    /\ Len(trav["r2"].yielded) >= 1

\* C8: under every interleaving, each reader sees what it would see running
\* alone on the resource built from the input, and no step of a reader
\* writes the resource or its buffer.
C8_ReadersIndependent ==
    /\ [](phase = "live" =>
              LET E == Parsed.ast.body
              IN  \A r \in Readers :
                     /\ SawSource(r) => last[r][1].ret = input
                     /\ SawEntry(r) => last[r][1].ret = Lookup(E, last[r][1].idx)
                     /\ trav[r].yielded = SubSeq(E, 1, Len(trav[r].yielded))
                     /\ trav[r].it # None => trav[r].it[1].pos = Len(trav[r].yielded)
                     /\ trav[r].ended => trav[r].yielded = E)
    /\ [][(last' # last \/ trav' # trav) =>
             res' = res /\ mem' = mem /\ slot' = slot]_vars

C8_Witness ==
    /\ phase = "live"
    /\ Len(get(res[1]).body) >= 2
    /\ trav["r1"].it # None
    /\ trav["r2"].it # None
    /\ trav["r1"].it[1].pos = 2
    /\ trav["r2"].it[1].pos = 1
    /\ SawSource("r1")
    /\ SawEntry("r2")

\* C9: a traversal yields the entries in the parser's order and no more of
\* them than there are; entries() starts at the first entry; one next() call
\* yields at most one more entry and leaves every other traversal as it was.
C9_TraversalOrderAndIndependence ==
    /\ [](phase = "live" =>
              LET E == Parsed.ast.body
              IN  \A r \in Readers :
                     /\ Len(trav[r].yielded) <= Len(E)
                     /\ \A i \in 1 .. Len(trav[r].yielded) : trav[r].yielded[i] = E[i])
    /\ [][\A r \in Readers :
             trav'[r] # trav[r] =>
                /\ \A r2 \in Readers \ {r} : trav'[r2] = trav[r2]
                /\ \/ trav'[r] = NoTrav
                   \/ trav'[r] = [it |-> Some([pos |-> 0]), yielded |-> <<>>, ended |-> FALSE]
                   \/ /\ trav[r].it # None
                      /\ trav'[r].it # None
                      /\ \/ /\ trav'[r].ended
                            /\ trav'[r].yielded = trav[r].yielded
                            /\ Len(trav[r].yielded) = Len(get(res[1]).body)
                         \/ /\ ~trav'[r].ended
                            /\ Len(trav'[r].yielded) = Len(trav[r].yielded) + 1
                            /\ SubSeq(trav'[r].yielded, 1, Len(trav[r].yielded))
                                  = trav[r].yielded
      ]_vars

C9_Witness ==
    /\ phase = "live"
    /\ trav["r1"].ended
    /\ Len(trav["r1"].yielded) = 2
    /\ trav["r2"].it = Some([pos |-> 0])
    /\ ~trav["r2"].ended

\* C10: while the resource exists its text is in memory where the cart says,
\* every slice of every entry lies inside it, a step that keeps the resource
\* keeps the cart and the buffer as they are, and when the resource is
\* dropped the entries and the buffer go together.
C10_EntriesPointIntoOwnText ==
    /\ [](res # None =>
              LET c == backing_cart(res[1])
              IN  /\ phase = "live"
                  /\ \A a \in Addr : (a >= c.ptr /\ a < c.ptr + c.len) => mem[a] # Free
                  /\ Str(mem, [ptr |-> c.ptr, len |-> c.len]) = input
                  /\ \A i \in 1 .. Len(get(res[1]).body) : Inside(get(res[1]).body[i], c))
    /\ [](phase = "dropped" => res = None /\ \A a \in Addr : mem[a] = Free)
    /\ [][(res # None /\ res' # None) => res' = res /\ mem' = mem]_vars

C10_Witness ==
    /\ phase = "live"
    /\ slot = "b"
    /\ Len(get(res[1]).body) >= 2
    /\ get(res[1]).body[1].value.len >= 1
    /\ SawSource("r1")

====
